---- MODULE Spec2Model ----
(***************************************************************************)
(* Weather lookup route: the loader (geocoding call, then weather call,    *)
(* with error translation) and the Index component (draft zip code, extra  *)
(* info toggle, render selection).  The repository holds two revisions of  *)
(* the route module: src/unnamed/part_000 and src/app/routes/_index.tsx.   *)
(* The loader and handleSearch are the same in both; Index differs.  The   *)
(* variable `file` fixes which revision is running.                        *)
(***************************************************************************)
EXTENDS Integers, Sequences, FiniteSets, TLC

\* ---------------------------------------------------------------- bounds
\* Longest `daily` array a weather payload carries.
MaxDaily == 8
\* Longest `weather` (conditions) array of a current block or a day.
MaxConds == 1

\* ------------------------------------------------------- JavaScript values
Undef == [t |-> "undef", n |-> 0, s |-> ""]
Num(n) == [t |-> "num", n |-> n, s |-> ""]
Str(s) == [t |-> "str", n |-> 0, s |-> s]
\* A plain object, carried as its JSON text.
Obj(text) == [t |-> "obj", n |-> 0, s |-> text]

\* ToBoolean, as used by `!x` and `x || y`.
Truthy(v) ==
  CASE v.t = "undef" -> FALSE
    [] v.t = "num" -> v.n # 0
    [] v.t = "str" -> v.s # ""
    [] OTHER -> TRUE

\* ToString, as used by `${x}` in a template literal.
JSToString(v) ==
  CASE v.t = "undef" -> "undefined"
    [] v.t = "num" -> ToString(v.n)
    [] v.t = "str" -> v.s
    [] OTHER -> "[object Object]"

\* `a || fallback` on strings of a template literal.
OrElse(v, fallback) == IF Truthy(v) THEN v ELSE Str(fallback)

RECURSIVE Join(_, _)
Join(parts, sep) ==
  IF Len(parts) = 0 THEN ""
  ELSE IF Len(parts) = 1 THEN parts[1]
  ELSE parts[1] \o sep \o Join(Tail(parts), sep)

\* JSON text of one value; undefined has none (the property is dropped).
JSONvalue(v) ==
  CASE v.t = "num" -> ToString(v.n)
    [] v.t = "str" -> "\"" \o v.s \o "\""
    [] OTHER -> v.s

JSONfield(name, v) ==
  IF v.t = "undef" THEN <<>> ELSE << "\"" \o name \o "\":" \o JSONvalue(v) >>

JSONobject(fields) == "{" \o Join(fields, ",") \o "}"

\* ------------------------------------------------------------ Error values
NoError == [name |-> "", message |-> ""]
Error(message) == [name |-> "Error", message |-> message]
\* fetch() rejecting: no connection to the collaborator.
FetchFailed == [name |-> "TypeError", message |-> "fetch failed"]
\* response.json() rejecting: the body is not JSON.
JSONSyntaxError == [name |-> "SyntaxError", message |-> "Unexpected token < in JSON"]

\* -------------------------------------------------------- URLSearchParams
\* A set of <<name, value>> pairs, at most one per name.
NewURLSearchParams == {}
Has(params, name) == \E e \in params : e[1] = name
Get(params, name) == (CHOOSE e \in params : e[1] = name)[2]
ParamsSet(params, name, value) ==
  {e \in params : e[1] # name} \cup {<<name, value>>}

DefaultZip == "10001"

\* Text the user types into the input.
Typed == {"90210"}

\* Query strings a document request or a history entry can carry.
Queries ==
  { {}, {<<"zipCode", "">>}, {<<"zipCode", "90210">>, <<"units", "metric">>} }

Files == {"part_000", "_index"}

\* ------------------------------------------- geocoding collaborator replies
\* fetch() resolves with the status line; the body arrives with .json() and is
\* the parsed JSON, or text that is not JSON.
GeoBody(lat, lon, message, name, country) ==
  [malformed |-> FALSE, lat |-> lat, lon |-> lon, message |-> message,
   name |-> name, country |-> country]
NoGeoData == GeoBody(Undef, Undef, Undef, Undef, Undef)
MalformedGeo == [NoGeoData EXCEPT !.malformed = TRUE]

Lats == {Undef, Num(0), Num(40)}
Lons == {Undef, Num(0), Num(-74)}

GeoBodies ==
  {GeoBody(lat, lon, Undef, Str("New York"), Str("US")) : lat \in Lats, lon \in Lons}
    \cup {GeoBody(Undef, Undef, m, Undef, Undef) : m \in {Undef, Str("not found")}}
    \cup {MalformedGeo}

NoGeoResponse == [ok |-> FALSE]

\* JSON.stringify(geoData)
StringifyGeo(g) ==
  JSONobject(JSONfield("name", g.name) \o JSONfield("lat", g.lat)
               \o JSONfield("lon", g.lon) \o JSONfield("country", g.country)
               \o JSONfield("message", g.message))

\* --------------------------------------------- weather collaborator replies
Condition == [description |-> "clear sky", icon |-> "01d"]
Conds(c) == [i \in 1..c |-> Condition]
Day(i, c) == [dt |-> i, weather |-> Conds(c)]
Days(n, c) == [i \in 1..n |-> Day(i, c)]

\* The `current` and `daily` sections of a payload; either may be missing.
NoCurrent == [present |-> FALSE, weather |-> <<>>]
Current(c) == [present |-> TRUE, weather |-> Conds(c)]
NoDaily == [present |-> FALSE, days |-> <<>>]
Daily(n, c) == [present |-> TRUE, days |-> Days(n, c)]

WeatherBody(message, current, daily) ==
  [malformed |-> FALSE, message |-> message, current |-> current, daily |-> daily]
NoWeatherData == WeatherBody(Undef, NoCurrent, NoDaily)
MalformedWeather == [NoWeatherData EXCEPT !.malformed = TRUE]

Currents == {NoCurrent} \cup {Current(c) : c \in 0..MaxConds}
Dailies == {NoDaily} \cup {Daily(n, c) : n \in 0..MaxDaily, c \in 0..MaxConds}

\* Bodies of a rejection: a message or nothing, never a data section.
WeatherRejections ==
  {WeatherBody(m, NoCurrent, NoDaily) : m \in {Undef, Str("Invalid API key")}}
    \cup {MalformedWeather}

\* The bodies that can follow a status: a success status carries any body.
WeatherBodies(ok) ==
  IF ok
    THEN {WeatherBody(Undef, cur, dly) : cur \in Currents, dly \in Dailies}
           \cup WeatherRejections
    ELSE WeatherRejections

NoWeatherResponse == [ok |-> FALSE]

StringifyConds(w) ==
  "[" \o Join([i \in 1..Len(w) |->
                 "{\"description\":\"" \o w[i].description
                   \o "\",\"icon\":\"" \o w[i].icon \o "\"}"], ",") \o "]"
StringifyDays(d) ==
  "[" \o Join([i \in 1..Len(d) |->
                 "{\"dt\":" \o ToString(d[i].dt) \o ",\"weather\":"
                   \o StringifyConds(d[i].weather) \o "}"], ",") \o "]"

\* JSON.stringify(weatherData)
StringifyWeather(w) ==
  JSONobject(
    JSONfield("message", w.message)
      \o (IF w.current.present
            THEN JSONfield("current",
                   Obj("{\"weather\":" \o StringifyConds(w.current.weather) \o "}"))
            ELSE <<>>)
      \o (IF w.daily.present
            THEN JSONfield("daily", Obj(StringifyDays(w.daily.days)))
            ELSE <<>>))

\* ------------------------------------------------------------------ state
VARIABLES
  file,            \* which revision of the route module is running
  searchParams,    \* the query string of the current location
  navigation,      \* navigation.state: "idle" or "loading"
  mounted,         \* Index has rendered at least once
  loaderData,      \* useLoaderData(): the body of the loader's last response
  zipCode,         \* useState("10001"): the draft in the input
  showExtra,       \* useState(false)
  pc,              \* the loader's position
  lzip,            \* loader local: zipCode
  geoResponse,     \* loader local
  geoData,         \* loader local
  weatherResponse, \* loader local
  weatherData,     \* loader local
  error,           \* the exception in flight to the catch clause
  response,        \* the loader's returned response body
  requested,       \* the URL of the last outbound call
  geoCalls,        \* fetch(geoUrl) calls of the running loader invocation
  weatherCalls     \* fetch(weatherUrl) calls of the running loader invocation

view == <<file, searchParams, navigation, mounted, loaderData, zipCode, showExtra>>
locals == <<lzip, geoResponse, geoData, weatherResponse, weatherData, error>>
calls == <<geoCalls, weatherCalls>>
vars == <<view, pc, locals, response, requested, calls>>

\* ---------------------------------------------------- loader response body
\* json(data): JSON.stringify(data) parsed again by useLoaderData.
NoData ==
  [hasError |-> FALSE, error |-> Undef, location |-> "",
   current |-> NoCurrent, daily |-> NoDaily]

\* An Error's `message` and `stack` are not enumerable: JSON.stringify drops them.
SerializeError(e) == Obj("{}")

\* json({ error }, { status: 500 })
JsonError(e) == [NoData EXCEPT !.hasError = TRUE, !.error = SerializeError(e)]

\* json({ location, current, daily })
JsonWeather(g, w) ==
  [NoData EXCEPT
     !.location = JSToString(g.name) \o ", " \o JSToString(g.country),
     !.current = w.current,
     !.daily = w.daily]

\* ------------------------------------------------------------- the loader
ApiKey == "KEY"

\* url.searchParams.get("zipCode") || "10001"
LoaderZip(params) ==
  IF Has(params, "zipCode") /\ Get(params, "zipCode") # ""
    THEN Get(params, "zipCode")
    ELSE DefaultZip

GeoUrl(zip) ==
  "http://api.openweathermap.org/geo/1.0/zip?zip=" \o zip \o ",US&appid=" \o ApiKey

WeatherUrl(g) ==
  "https://api.openweathermap.org/data/3.0/onecall?lat=" \o JSToString(g.lat)
    \o "&lon=" \o JSToString(g.lon)
    \o "&exclude=minutely,hourly,alerts&units=imperial&appid=" \o ApiKey

\* The Error the geocoding checks throw, or NoError when both pass.
GeoFailure(ok, g) ==
  IF ~ok
    THEN Error("Geo API error: " \o JSToString(OrElse(g.message, "Unknown error")))
  ELSE IF ~Truthy(g.lat) \/ ~Truthy(g.lon)
    THEN Error("Invalid zip code: " \o StringifyGeo(g))
  ELSE NoError

\* The Error the weather checks throw, or NoError when both pass.  A section
\* that is present is an object or an array, which is truthy even when empty.
WeatherFailure(ok, w) ==
  IF ~ok
    THEN Error("Weather API error: " \o JSToString(OrElse(w.message, "Unknown error")))
  ELSE IF ~w.current.present \/ ~w.daily.present
    THEN Error("Invalid weather data: " \o StringifyWeather(w))
  ELSE NoError

NoLocals ==
  /\ lzip' = ""
  /\ geoResponse' = NoGeoResponse
  /\ geoData' = NoGeoData
  /\ weatherResponse' = NoWeatherResponse
  /\ weatherData' = NoWeatherData
  /\ error' = NoError

\* The router calls the loader for the location being navigated to.
loaderStart ==
  /\ pc = "start"
  /\ lzip' = LoaderZip(searchParams)
  /\ pc' = "geoFetch"
  /\ UNCHANGED <<view, geoResponse, geoData, weatherResponse, weatherData, error,
                 response, requested, calls>>

\* await fetch(geoUrl)
geoFetch ==
  /\ pc = "geoFetch"
  /\ geoCalls' = geoCalls + 1
  /\ requested' = GeoUrl(lzip)
  /\ \/ /\ error' = FetchFailed
        /\ pc' = "catch"
        /\ UNCHANGED geoResponse
     \/ /\ \E ok \in BOOLEAN : geoResponse' = [ok |-> ok]
        /\ pc' = "geoJson"
        /\ UNCHANGED error
  /\ UNCHANGED <<view, lzip, geoData, weatherResponse, weatherData, response,
                 weatherCalls>>

\* await geoResponse.json()
geoJson ==
  /\ pc = "geoJson"
  /\ \E body \in GeoBodies :
       IF body.malformed
         THEN error' = JSONSyntaxError /\ pc' = "catch" /\ UNCHANGED geoData
         ELSE geoData' = body /\ pc' = "geoCheck" /\ UNCHANGED error
  /\ UNCHANGED <<view, lzip, geoResponse, weatherResponse, weatherData, response,
                 requested, calls>>

\* if (!geoResponse.ok) throw ...; if (!geoData.lat || !geoData.lon) throw ...
geoCheck ==
  /\ pc = "geoCheck"
  /\ LET failure == GeoFailure(geoResponse.ok, geoData)
     IN IF failure # NoError
          THEN error' = failure /\ pc' = "catch"
          ELSE pc' = "weatherFetch" /\ UNCHANGED error
  /\ UNCHANGED <<view, lzip, geoResponse, geoData, weatherResponse, weatherData,
                 response, requested, calls>>

\* await fetch(weatherUrl)
weatherFetch ==
  /\ pc = "weatherFetch"
  /\ weatherCalls' = weatherCalls + 1
  /\ requested' = WeatherUrl(geoData)
  /\ \/ /\ error' = FetchFailed
        /\ pc' = "catch"
        /\ UNCHANGED weatherResponse
     \/ /\ \E ok \in BOOLEAN : weatherResponse' = [ok |-> ok]
        /\ pc' = "weatherJson"
        /\ UNCHANGED error
  /\ UNCHANGED <<view, lzip, geoResponse, geoData, weatherData, response, geoCalls>>

\* await weatherResponse.json()
weatherJson ==
  /\ pc = "weatherJson"
  /\ \E body \in WeatherBodies(weatherResponse.ok) :
       IF body.malformed
         THEN error' = JSONSyntaxError /\ pc' = "catch" /\ UNCHANGED weatherData
         ELSE weatherData' = body /\ pc' = "weatherCheck" /\ UNCHANGED error
  /\ UNCHANGED <<view, lzip, geoResponse, geoData, weatherResponse, response,
                 requested, calls>>

\* The weather checks, then return json({ location, current, daily }).
weatherCheck ==
  /\ pc = "weatherCheck"
  /\ LET failure == WeatherFailure(weatherResponse.ok, weatherData)
     IN IF failure # NoError
          THEN /\ error' = failure
               /\ pc' = "catch"
               /\ UNCHANGED <<lzip, geoResponse, geoData, weatherResponse,
                              weatherData, response>>
          ELSE /\ response' = JsonWeather(geoData, weatherData)
               /\ pc' = "return"
               /\ NoLocals
  /\ UNCHANGED <<view, requested, calls>>

\* As catch, but a failed geocoding call is tried once more.
catchRetrying ==
  /\ pc = "catch"
  /\ IF weatherCalls = 0 /\ geoCalls < 2
       THEN /\ pc' = "geoFetch"
            /\ UNCHANGED <<locals, response>>
       ELSE /\ response' = JsonError(error)
            /\ pc' = "return"
            /\ NoLocals
  /\ UNCHANGED <<view, requested, calls>>

\* catch (error) { console.error(...); return json({ error }, { status: 500 }) }
catch ==
  /\ pc = "catch"
  /\ response' = JsonError(error)
  /\ pc' = "return"
  /\ NoLocals
  /\ UNCHANGED <<view, requested, calls>>

\* ------------------------------------------------------ the Index component
\* What a render returns: which tree, whether it holds the search form (and
\* so handleSearch and setZipCode), the child of the error paragraph, and the
\* labels of the forecast cards in order.
Tree(kind, form, message, cards) ==
  [view |-> kind, form |-> form, extra |-> FALSE, message |-> message,
   cards |-> cards]
NotRendered == Tree("none", FALSE, Undef, <<>>)
\* The render throws: no tree of this route is shown.
Fault == Tree("fault", FALSE, Undef, <<>>)
Loading == Tree("loading", FALSE, Undef, <<>>)

\* {weatherData.error} as a child of <p>: React renders a string and throws on
\* a plain object.
ErrorTree(child) ==
  IF child.t = "obj" THEN Fault ELSE Tree("error", FALSE, child, <<>>)

\* `${dayOfWeek}, ${dateString}` of a day's date.
WeekdayLabel(day) == "weekday " \o ToString(day.dt) \o ", date " \o ToString(day.dt)
\* new Date(day.dt * 1000).toLocaleDateString()
DateLabel(day) == "date " \o ToString(day.dt)

\* displayDate of the card at JavaScript index `index`.
DisplayDate(day, index) ==
  IF index = 0 THEN "Today" ELSE IF index = 1 THEN "Tomorrow" ELSE WeekdayLabel(day)

SliceEnd == 7
\* daily.slice(0, 7)
Slice7(days) == SubSeq(days, 1, IF Len(days) < SliceEnd THEN Len(days) ELSE SliceEnd)

\* The reads of element 0 in the data tree (x[0].icon, x[0].temp) throw a
\* TypeError when the array is empty or the section is missing.
ReadsThrow(data, days) ==
  \/ ~data.current.present
  \/ Len(data.current.weather) = 0
  \/ ~data.daily.present
  \/ Len(data.daily.days) = 0
  \/ \E i \in 1..Len(days) : Len(days[i].weather) = 0

DataTree(data, extra, cards, days) ==
  IF ReadsThrow(data, days)
    THEN Fault
    ELSE [Tree("success", TRUE, Undef, cards) EXCEPT !.extra = extra]

\* Index of src/unnamed/part_000
IndexUnnamed(data, nav, extra) ==
  IF data.hasError THEN ErrorTree(data.error)
  ELSE IF nav = "loading" THEN Loading
  ELSE DataTree(data, extra,
                [i \in 1..Len(data.daily.days) |-> DisplayDate(data.daily.days[i], i - 1)],
                data.daily.days)

\* Index of src/app/routes/_index.tsx
IndexRoute(data, extra) ==
  DataTree(data, extra,
           [i \in 1..Len(Slice7(data.daily.days)) |-> DateLabel(data.daily.days[i])],
           Slice7(data.daily.days))

Index(f, data, nav, extra) ==
  IF f = "part_000" THEN IndexUnnamed(data, nav, extra) ELSE IndexRoute(data, extra)

\* The tree on screen.
Rendered ==
  IF mounted THEN Index(file, loaderData, navigation, showExtra) ELSE NotRendered

\* The router starts a navigation to `params`: the running loader call, if
\* any, is abandoned and the loader is called for the new location.
StartNavigation(params) ==
  /\ searchParams' = params
  /\ navigation' = "loading"
  /\ pc' = "start"
  /\ NoLocals
  /\ response' = NoData
  /\ geoCalls' = 0
  /\ weatherCalls' = 0
  /\ UNCHANGED requested

\* onChange={(e) => setZipCode(e.target.value)}
setZipCode(value) ==
  /\ Rendered.form
  /\ zipCode' = value
  /\ UNCHANGED <<file, searchParams, navigation, mounted, loaderData, showExtra,
                 pc, locals, response, requested, calls>>

\* onClick={() => setShowExtra(!showExtra)}
setShowExtra ==
  /\ Rendered.view = "success"
  /\ showExtra' = ~showExtra
  /\ UNCHANGED <<file, searchParams, navigation, mounted, loaderData, zipCode,
                 pc, locals, response, requested, calls>>

\* As SearchParamsFor, but starting from the current parameters
\* (new URLSearchParams(searchParams)) instead of an empty set.
SearchParamsMerging(draft, current) == ParamsSet(current, "zipCode", draft)

\* const params = new URLSearchParams(); params.set("zipCode", zipCode)
SearchParamsFor(draft, current) == ParamsSet(NewURLSearchParams, "zipCode", draft)

\* onSubmit={handleSearch}
handleSearch ==
  /\ Rendered.form
  /\ StartNavigation(SearchParamsFor(zipCode, searchParams))
  /\ UNCHANGED <<file, mounted, loaderData, zipCode, showExtra>>

\* A navigation the component does not start (the browser's back and forward
\* buttons): useNavigation and useLoaderData report it like any other.
navigate(params) ==
  /\ mounted
  /\ StartNavigation(params)
  /\ UNCHANGED <<file, mounted, loaderData, zipCode, showExtra>>

\* The loader's response reaches the route: useLoaderData returns its body and
\* navigation.state is "idle" again.  The first response mounts Index.
commit ==
  /\ pc = "return"
  /\ loaderData' = response
  /\ navigation' = "idle"
  /\ mounted' = TRUE
  /\ pc' = "idle"
  /\ response' = NoData
  /\ geoCalls' = 0
  /\ weatherCalls' = 0
  /\ UNCHANGED <<file, searchParams, zipCode, showExtra, locals, requested>>

\* ------------------------------------------------------- the specification
Init ==
  /\ file \in Files
  /\ searchParams \in Queries
  /\ navigation = "idle"
  /\ mounted = FALSE
  /\ loaderData = NoData
  /\ zipCode = DefaultZip
  /\ showExtra = FALSE
  /\ pc = "start"
  /\ lzip = ""
  /\ geoResponse = NoGeoResponse
  /\ geoData = NoGeoData
  /\ weatherResponse = NoWeatherResponse
  /\ weatherData = NoWeatherData
  /\ error = NoError
  /\ response = NoData
  /\ requested = ""
  /\ geoCalls = 0
  /\ weatherCalls = 0

Next ==
  \/ loaderStart
  \/ geoFetch
  \/ geoJson
  \/ geoCheck
  \/ weatherFetch
  \/ weatherJson
  \/ weatherCheck
  \/ catch
  \/ commit
  \/ \E value \in Typed \cup {DefaultZip} : setZipCode(value)
  \/ setShowExtra
  \/ handleSearch
  \/ \E params \in Queries : navigate(params)

Spec == Init /\ [][Next]_vars

\* ------------------------------------------------------------- properties
IsNum(v) == v.t = "num"
Min(a, b) == IF a < b THEN a ELSE b
IsFailure(data) == data.hasError

\* C1: while a navigation is loading, Index renders the loading indicator
\* and nothing else, whatever the loader data is.
C1_LoadingRendersOnlyIndicator ==
  (mounted /\ navigation = "loading") => Rendered = Loading

\* C2: when a fetch or a .json() call throws, the loader returns an error
\* body that carries the exception's message.
C2_TransportFailureCarriesMessage ==
  [][(pc = "catch" /\ pc' = "return" /\ error \in {FetchFailed, JSONSyntaxError})
       => (response'.hasError /\ response'.error = Str(error.message))]_vars

\* C3: when the geocoding collaborator rejects the zip code with the message
\* "not found", the loader's error is exactly "not found", and Index shows
\* the error the loader returned.
C3_GeoRejectionMessageVerbatim ==
  /\ [][(pc = "catch" /\ pc' = "return" /\ ~geoResponse.ok
           /\ geoData.message = Str("not found"))
          => (response'.hasError /\ response'.error = Str("not found"))]_vars
  /\ []((mounted /\ loaderData.hasError /\ navigation = "idle")
          => (Rendered.view = "error" /\ Rendered.message = loaderData.error))

\* C4: a success body has a non-empty daily array and non-empty conditions
\* for current and for every day, so the reads of element 0 in Index never
\* meet an empty array.
C4_SuccessHasNonEmptyArrays ==
  /\ (pc = "return" /\ ~response.hasError)
       => /\ Len(response.daily.days) > 0
          /\ Len(response.current.weather) > 0
          /\ \A i \in 1..Len(response.daily.days) :
               Len(response.daily.days[i].weather) > 0
  /\ (mounted /\ ~loaderData.hasError)
       => ~ReadsThrow(loaderData, loaderData.daily.days)

\* C5: handleSearch leaves exactly one query parameter, zipCode = the draft,
\* changes neither the draft nor showExtra, and makes no outbound call.
C5_SubmitPublishesOnlyZip ==
  [][handleSearch
       => /\ searchParams' = {<<"zipCode", zipCode>>}
          /\ zipCode' = zipCode
          /\ showExtra' = showExtra
          /\ requested' = requested
          /\ geoCalls' = 0
          /\ weatherCalls' = 0]_vars

\* The user has typed 90210 and submitted: the query is zipCode=90210 alone
\* and the navigation it starts has not called the loader yet.
C5_Witness ==
  /\ searchParams = {<<"zipCode", "90210">>}
  /\ navigation = "loading"
  /\ pc = "start"
  /\ zipCode = "90210"

\* C6: whenever the outcome on screen is a failure, the search form is
\* there to submit a new zip code.
C6_FailureCanResubmit ==
  (mounted /\ IsFailure(loaderData) /\ navigation = "idle") => Rendered.form

\* C7: the success tree has min(length of daily, 7) forecast cards, the
\* first labelled "Today" and the second "Tomorrow".
C7_ForecastCards ==
  Rendered.view = "success"
    => /\ Len(Rendered.cards) = Min(Len(loaderData.daily.days), 7)
       /\ Rendered.cards[1] = "Today"
       /\ Len(Rendered.cards) >= 2 => Rendered.cards[2] = "Tomorrow"

\* C8: the geocoding checks throw exactly when the status is not a success
\* or lat and lon are not both numbers; numeric coordinates, zero included,
\* pass and the weather URL is built from them.
C8_GeoErrorIffNotNumeric ==
  [][(pc = "geoCheck" /\ pc' \in {"catch", "weatherFetch"})
       => ((pc' = "catch")
             <=> (~geoResponse.ok \/ ~IsNum(geoData.lat) \/ ~IsNum(geoData.lon)))]_vars

\* C9: in one loader call each collaborator is called at most once, the
\* weather call only after the geocoding reply passed its checks, and no
\* call follows a failure.
C9_SequentialSingleAttempt ==
  /\ [](geoCalls <= 1 /\ weatherCalls <= 1 /\ weatherCalls <= geoCalls)
  /\ [][geoCalls' > geoCalls
          => (pc = "geoFetch" /\ geoCalls = 0 /\ weatherCalls = 0
                /\ error = NoError)]_vars
  /\ [][weatherCalls' > weatherCalls
          => (pc = "weatherFetch" /\ geoCalls = 1 /\ weatherCalls = 0
                /\ error = NoError /\ geoResponse.ok
                /\ Truthy(geoData.lat) /\ Truthy(geoData.lon)
                /\ requested' = WeatherUrl(geoData))]_vars
  /\ [][pc = "catch"
          => (pc' \in {"catch", "return", "start"}
                /\ geoCalls' <= geoCalls /\ weatherCalls' <= weatherCalls)]_vars

\* A loader call has failed after both calls and is about to return.
C9_Witness ==
  pc = "return" /\ response.hasError /\ geoCalls = 1 /\ weatherCalls = 1

\* C10: when Index mounts, the draft is the zip code the loader used and
\* showExtra is false.
C10_DraftStartsAtActiveZip ==
  [][(~mounted /\ mounted')
       => (zipCode' = LoaderZip(searchParams') /\ showExtra' = FALSE)]_vars

====
